---- MODULE Spec2Model ----
(***************************************************************************)
(* Deletion subsystem of the BananaFate data-ingestion backend             *)
(* (helper_deletion.py and the endpoints of app.py that drive it).         *)
(*                                                                         *)
(* The record store (MongoDB collection), the object store (GCS bucket)    *)
(* and the audit collection are global state.  Every request is a process  *)
(* that advances one store call at a time, so that requests can be         *)
(* interleaved at the granularity the code offers (no lock is held across  *)
(* phases).                                                                *)
(***************************************************************************)
EXTENDS Integers, Sequences, FiniteSets, TLC

\* ---------------------------------------------------------------- bounds
MaxDocs == 2        \* ObjectIds the record store hands out (= object paths)
MaxCalls == 2       \* orchestrator invocations in one behaviour
MaxWorkers == 2     \* largest max_workers a batch is called with on its own

\* ------------------------------------------------------ program constants
SOFT_DELETE_RETENTION_DAYS == 30
max_workers == 10
DefaultAuditLimit == 50
MaxAuditLimit == 200

Procs == {1, 2}
Ids == 1 .. MaxDocs
Paths == 1 .. MaxDocs
NoPath == 0                       \* a record without (or with empty) objectPath
BadId == 0                        \* a string ObjectId() rejects
Bananas == {1, 2}
\* auth.get('userId'): the user of the session a request arrives on
UserOf(p) == IF p = 1 THEN "alice" ELSE "bob"

\* ------------------------------------------------------------ record store
NoDoc ==
  [present |-> FALSE, bananaId |-> 0, objectPath |-> NoPath,
   isDeleted |-> FALSE, deletedAt |-> 0, deletedBy |-> ""]

NewDoc(banana, path) ==
  [present |-> TRUE, bananaId |-> banana, objectPath |-> path,
   isDeleted |-> FALSE, deletedAt |-> 0, deletedBy |-> ""]

\* Filters handed to find / update_many / delete_many.
NoFilter == [kind |-> "none", id |-> 0, bananaId |-> 0, cutoff |-> 0]
ById(i) == [kind |-> "id", id |-> i, bananaId |-> 0, cutoff |-> 0]
ByBanana(b) == [kind |-> "banana", id |-> 0, bananaId |-> b, cutoff |-> 0]
ByBatch == [kind |-> "batch", id |-> 0, bananaId |-> 0, cutoff |-> 0]
Expired(c) == [kind |-> "expired", id |-> 0, bananaId |-> 0, cutoff |-> c]

Matches(i, d, f) ==
  /\ d.present
  /\ CASE f.kind = "id" -> i = f.id
       [] f.kind = "banana" -> d.bananaId = f.bananaId
       [] f.kind = "batch" -> TRUE
       [] f.kind = "expired" -> d.isDeleted /\ d.deletedAt < f.cutoff
       [] OTHER -> FALSE

Find(store, f) == {i \in Ids : Matches(i, store[i], f)}

RECURSIVE SortedIds(_)
SortedIds(S) ==
  IF S = {} THEN <<>>
  ELSE LET m == CHOOSE x \in S : \A y \in S : x <= y
       IN <<m>> \o SortedIds(S \ {m})

\* list(collection.find(filter)): the matched records, as read.
FindList(store, f) ==
  LET ids == SortedIds(Find(store, f))
  IN [k \in 1 .. Len(ids) |-> [id |-> ids[k], doc |-> store[ids[k]]]]

SoftMarked(d, user, ts) ==
  [d EXCEPT !.isDeleted = TRUE, !.deletedAt = ts, !.deletedBy = user]

\* update_many(filter, {$set: {deletedAt, deletedBy, isDeleted}})
SoftDeleteStore(store, f, user, ts) ==
  [i \in Ids |-> IF Matches(i, store[i], f) THEN SoftMarked(store[i], user, ts)
                 ELSE store[i]]

\* result.modified_count: matched records the update changed
SoftDeleteCount(store, f, user, ts) ==
  Cardinality({i \in Find(store, f) : SoftMarked(store[i], user, ts) # store[i]})
\* Mutant: delete_many reports the matches but leaves the records.
HardDeleteStore_Keeps(store, f) == store

\* delete_many(filter)
HardDeleteStore(store, f) ==
  [i \in Ids |-> IF Matches(i, store[i], f) THEN NoDoc ELSE store[i]]

HardDeleteCount(store, f) == Cardinality(Find(store, f))

\* ------------------------------------------------------------------ audit
ErrGcs(path) == [kind |-> "gcs", a |-> path, b |-> 0]
ErrOrphan == [kind |-> "mongo_after_gcs", a |-> 0, b |-> 0]
ErrZeroCount == [kind |-> "mongo_zero_count", a |-> 0, b |-> 0]
ErrMismatch(e, d) == [kind |-> "mismatch", a |-> e, b |-> d]

NoTarget == [documentId |-> 0, objectPath |-> NoPath, filter |-> NoFilter]
ImageTarget(id, path) == [documentId |-> id, objectPath |-> path, filter |-> NoFilter]
SetTarget(f) == [documentId |-> 0, objectPath |-> NoPath, filter |-> f]

PartialSuccess(deleted_count, gcs_deleted_count) ==
  gcs_deleted_count > 0 /\ gcs_deleted_count < deleted_count

\* audit_record of log_deletion_audit (call: the invocation that wrote it)
AuditRecord(call, user, optype, target, deleted_count, gcs_deleted_count, ok, errs) ==
  [call |-> call, userId |-> user, operationType |-> optype, target |-> target,
   deletedCount |-> deleted_count, gcsDeletedCount |-> gcs_deleted_count,
   success |-> ok, errors |-> errs,
   partialSuccess |-> PartialSuccess(deleted_count, gcs_deleted_count)]

NoAudit == AuditRecord(0, "", "", NoTarget, 0, 0, FALSE, <<>>)

\* ------------------------------------------------------------------ state
VARIABLES
  docs,          \* record store: ObjectId -> record
  blobs,         \* object store: the paths that hold a blob
  audit,         \* deletion_audit collection, in insertion order
  nextId,        \* next ObjectId insert_one assigns
  now,           \* datetime.utcnow()
  calls,         \* orchestrator invocations started so far
  SOFT_DELETE_ENABLED,
  req            \* per request: program counter and locals

vars == <<docs, blobs, audit, nextId, now, calls, SOFT_DELETE_ENABLED, req>>

IdleReq ==
  [op |-> "none", pc |-> "idle", call |-> 0, user |-> "",
   document_id |-> 0, filter |-> NoFilter, operation_type |-> "",
   document |-> NoDoc, object_path |-> NoPath,
   images |-> <<>>, expected_count |-> 0, object_paths |-> <<>>,
   max_workers |-> max_workers,
   tasks |-> <<>>, gcs_deleted |-> 0, gcs_errors |-> <<>>,
   deleted_count |-> 0,
   audits |-> <<>>, total |-> 0,
   pending |-> NoAudit, outcome |-> "", raised |-> <<>>,
   result |-> "",
   \* history of the invocation: what it did to the stores
   attempts |-> <<>>, db_writes |-> 0, db_count |-> 0,
   audit_calls |-> 0, audit_lost |-> FALSE, faulted |-> FALSE,
   snap_docs |-> [i \in Ids |-> NoDoc], snap_blobs |-> {}]

Init ==
  /\ docs = [i \in Ids |-> NoDoc]
  /\ blobs = {}
  /\ audit = <<>>
  /\ nextId = 1
  /\ now = 1
  /\ calls = 0
  /\ SOFT_DELETE_ENABLED \in BOOLEAN
  /\ req = [p \in Procs |-> IdleReq]

Quiet == \A p \in Procs : req[p].pc = "idle"

\* A request arrives: alone (conc = FALSE), or on any free session; the second
\* session is used only while the first is busy.
Arrives(p, conc) ==
  /\ req[p].pc = "idle"
  /\ IF conc THEN \A q \in Procs : q < p => req[q].pc # "idle" ELSE Quiet

\* Locals of a fresh invocation; the stores as the invocation found them.
Begin(op, user, conc) ==
  [IdleReq EXCEPT !.op = op, !.call = calls + 1, !.user = user,
                  !.snap_docs = IF conc THEN @ ELSE docs,
                  !.snap_blobs = IF conc THEN @ ELSE blobs]

\* The invocation returns to its caller (a value, or a raised error).
Finish(r, res) == [r EXCEPT !.pc = "done", !.result = res]

\* A call of log_deletion_audit(...) followed by raise / return `res`.
LogThen(r, deleted_count, gcs_deleted_count, ok, errs, res, raised) ==
  [r EXCEPT !.pc = "audit",
            !.pending = AuditRecord(r.call, r.user, r.operation_type,
                                    IF r.op = "deleteImage"
                                    THEN ImageTarget(r.document_id, r.object_path)
                                    ELSE SetTarget(r.filter),
                                    deleted_count, gcs_deleted_count, ok, errs),
            !.outcome = res, !.raised = raised]

\* History: blob.delete() was called on `path` and returned (ok) or raised;
\* faulted: it raised although the blob was there.
Attempted(r, path, ok) ==
  [r EXCEPT !.attempts = Append(@, [path |-> path, ok |-> ok]),
            !.faulted = @ \/ (~ok /\ path \in blobs)]

\* History: update_many / delete_many was called and returned `count`.
Wrote(r, count) == [r EXCEPT !.db_writes = @ + 1, !.db_count = count]
\* Mutant: success is reported although no blob was deleted.
BlobDeleteOutcomes_Either(path) == {TRUE, FALSE}
\* Mutant: deleting a blob that is not there counts as done.
BlobDeleteOutcomes_MissingOk(path) == IF path \in blobs THEN {TRUE, FALSE} ELSE {TRUE}

\* blob.delete(): a missing blob raises NotFound; an existing one is deleted
\* unless the call fails (network, permission).
BlobDeleteOutcomes(path) == IF path \in blobs THEN {TRUE, FALSE} ELSE {FALSE}
\* Mutant: the path of every record is submitted, a missing one too.
ObjectPaths_All(images) ==
  [k \in 1 .. Len(images) |-> images[k].doc.objectPath]

\* object_paths = [img.get('objectPath') for img in images if img.get('objectPath')]
RECURSIVE ObjectPaths(_)
ObjectPaths(images) ==
  IF images = <<>> THEN <<>>
  ELSE (IF Head(images).doc.objectPath # NoPath
        THEN <<Head(images).doc.objectPath>> ELSE <<>>) \o ObjectPaths(Tail(images))

\* ------------------------------------------------- ingestion (environment)
PathChoices(id) == {NoPath, id}

\* Upload through the signed URL, then POST /save-metadata: insert_one(document)
SaveMetadata(conc) ==
  /\ conc \/ Quiet
  /\ nextId <= MaxDocs
  /\ \E banana \in Bananas, path \in PathChoices(nextId) :
       /\ docs' = [docs EXCEPT ![nextId] = NewDoc(banana, path)]
       /\ blobs' = IF path = NoPath THEN blobs ELSE blobs \cup {path}
  /\ nextId' = nextId + 1
  /\ UNCHANGED <<audit, now, calls, SOFT_DELETE_ENABLED, req>>

\* A client writes again to an object path it was issued before.
UploadBlob ==
  /\ \E path \in Paths \ blobs :
       /\ path < nextId
       /\ blobs' = blobs \cup {path}
  /\ UNCHANGED <<docs, audit, nextId, now, calls, SOFT_DELETE_ENABLED, req>>

\* A retention period passes.  Time is observable only through the age of a
\* soft-deleted record, so the clock is moved only while one is not yet expired.
Elapse(conc) ==
  /\ conc \/ Quiet
  /\ \E i \in Ids : /\ docs[i].present /\ docs[i].isDeleted
                     /\ ~(docs[i].deletedAt < now - SOFT_DELETE_RETENTION_DAYS)
  /\ now' = now + SOFT_DELETE_RETENTION_DAYS
  /\ UNCHANGED <<docs, blobs, audit, nextId, calls, SOFT_DELETE_ENABLED, req>>

\* ------------------------------------------------ delete_image_transaction
\* Mutant: the objectPath check is missing.
ImgResolve_NoPathCheck(r, document_id) ==
  LET r1 == [r EXCEPT !.document_id = document_id, !.operation_type = "image"]
  IN IF document_id = BadId THEN Finish(r1, "InvalidIdentifier")
     ELSE IF ~docs[document_id].present THEN Finish(r1, "NotFound")
     ELSE [r1 EXCEPT !.pc = "gcs", !.document = docs[document_id],
                     !.object_path = docs[document_id].objectPath]

\* ObjectId(document_id), find_one, objectPath check
ImgResolve(r, document_id) ==
  LET r1 == [r EXCEPT !.document_id = document_id, !.operation_type = "image"]
  IN IF document_id = BadId THEN Finish(r1, "InvalidIdentifier")
     ELSE IF ~docs[document_id].present THEN Finish(r1, "NotFound")
     ELSE IF docs[document_id].objectPath = NoPath
          THEN Finish([r1 EXCEPT !.document = docs[document_id]], "MissingPath")
     ELSE [r1 EXCEPT !.pc = "gcs", !.document = docs[document_id],
                     !.object_path = docs[document_id].objectPath]

DeleteImageStart(p, conc) ==
  /\ Arrives(p, conc)
  /\ calls < MaxCalls
  /\ calls' = calls + 1
  /\ \E document_id \in Ids \cup {BadId} :
       req' = [req EXCEPT ![p] =
                 ImgResolve(Begin("deleteImage", UserOf(p), conc), document_id)]
  /\ UNCHANGED <<docs, blobs, audit, nextId, now, SOFT_DELETE_ENABLED>>

\* Mutant: the "continue on GCS failure" policy, the record is deleted anyway.
ImgGate_Continue(r, success) ==
  [r EXCEPT !.pc = "db", !.gcs_deleted = IF success THEN 1 ELSE 0]

\* Mutant: the failure is raised without the audit call.
ImgGate_NoAudit(r, success) ==
  IF ~success
  THEN Finish([r EXCEPT !.gcs_errors = <<ErrGcs(r.object_path)>>,
                        !.raised = <<ErrGcs(r.object_path)>>],
              "ObjectStoreDeletionFailed")
  ELSE [r EXCEPT !.pc = "db", !.gcs_deleted = 1]

\* Phase 1 outcome: on failure audit (0, 0, False, [error]) and raise
ImgGate(r, success) ==
  IF ~success
  THEN LogThen([r EXCEPT !.gcs_errors = <<ErrGcs(r.object_path)>>],
               0, 0, FALSE, <<ErrGcs(r.object_path)>>,
               "ObjectStoreDeletionFailed", <<ErrGcs(r.object_path)>>)
  ELSE [r EXCEPT !.pc = "db", !.gcs_deleted = 1]
\* Mutant: with soft delete enabled the blob is kept for the retention period.
ImgGcsDelete_SoftKeepsBlob(p) ==
  /\ req[p].pc = "gcs"
  /\ req[p].op = "deleteImage"
  /\ \E client_ok \in BOOLEAN :
       IF ~client_ok
       THEN /\ req' = [req EXCEPT ![p] = Finish(@, "UnexpectedError")]
            /\ blobs' = blobs
       ELSE \E success \in BlobDeleteOutcomes(req[p].object_path) :
              /\ blobs' = IF success /\ ~SOFT_DELETE_ENABLED
                          THEN blobs \ {req[p].object_path} ELSE blobs
              /\ req' = [req EXCEPT ![p] =
                           ImgGate(Attempted(@, req[p].object_path, success), success)]
  /\ UNCHANGED <<docs, audit, nextId, now, calls, SOFT_DELETE_ENABLED>>

\* get_gcs_client(), then delete_gcs_object(bucket, object_path)
ImgGcsDelete(p) ==
  /\ req[p].pc = "gcs"
  /\ req[p].op = "deleteImage"
  /\ \E client_ok \in BOOLEAN :
       IF ~client_ok
       THEN /\ req' = [req EXCEPT ![p] = Finish(@, "UnexpectedError")]
            /\ blobs' = blobs
       ELSE \E success \in BlobDeleteOutcomes(req[p].object_path) :
              /\ blobs' = IF success THEN blobs \ {req[p].object_path} ELSE blobs
              /\ req' = [req EXCEPT ![p] =
                           ImgGate(Attempted(@, req[p].object_path, success), success)]
  /\ UNCHANGED <<docs, audit, nextId, now, calls, SOFT_DELETE_ENABLED>>

\* Mutant: the success audit reports no object deletion.
ImgVerify_NoObjectCount(r, deleted_count) ==
  LET r1 == [r EXCEPT !.deleted_count = deleted_count]
  IN IF deleted_count = 0
     THEN LogThen(r1, 0, 1, FALSE, <<ErrOrphan>>,
                  "OrphanedObjectAfterPartialDeletion", <<ErrZeroCount>>)
     ELSE LogThen(r1, deleted_count, 0, TRUE, <<>>, "Success", <<>>)

\* Mutant: the deleted count is not verified.
ImgVerify_NoCheck(r, deleted_count) ==
  LogThen([r EXCEPT !.deleted_count = deleted_count],
          deleted_count, 1, TRUE, <<>>, "Success", <<>>)

\* Verify deletion, then audit and return
ImgVerify(r, deleted_count) ==
  LET r1 == [r EXCEPT !.deleted_count = deleted_count]
  IN IF deleted_count = 0
     THEN LogThen(r1, 0, 1, FALSE, <<ErrOrphan>>,
                  "OrphanedObjectAfterPartialDeletion", <<ErrZeroCount>>)
     ELSE LogThen(r1, deleted_count, 1, TRUE, <<>>, "Success", <<>>)

\* Phase 2: soft_delete_documents / hard_delete_documents on {"_id": obj_id}
ImgDbDelete(p) ==
  /\ req[p].pc = "db"
  /\ req[p].op = "deleteImage"
  /\ \E db_ok \in BOOLEAN :
       LET f == ById(req[p].document_id)
       IN IF ~db_ok
          THEN /\ req' = [req EXCEPT ![p] = Finish(@, "UnexpectedError")]
               /\ UNCHANGED <<docs, now>>
          ELSE IF SOFT_DELETE_ENABLED
          THEN /\ docs' = SoftDeleteStore(docs, f, req[p].user, now)
               /\ now' = now + 1
               /\ req' = [req EXCEPT ![p] =
                            LET n == SoftDeleteCount(docs, f, req[p].user, now)
                            IN ImgVerify(Wrote(@, n), n)]
          ELSE /\ docs' = HardDeleteStore(docs, f)
               /\ now' = now
               /\ req' = [req EXCEPT ![p] =
                            LET n == HardDeleteCount(docs, f)
                            IN ImgVerify(Wrote(@, n), n)]
  /\ UNCHANGED <<blobs, audit, nextId, calls, SOFT_DELETE_ENABLED>>

\* -------------------------------------- delete_multiple_images_transaction
\* Phase 1: list(collection.find(filter_query)); expected_count; object_paths
SetResolve(r, f) ==
  LET images == FindList(docs, f)
      r1 == [r EXCEPT !.filter = f, !.operation_type = f.kind]
  IN IF images = <<>> THEN Finish(r1, "NotFound")
     ELSE [r1 EXCEPT !.pc = "batch", !.images = images,
                     !.expected_count = Len(images),
                     !.object_paths = ObjectPaths(images)]

\* DELETE /banana/{batch_id}/{banana_id} and DELETE /batch/{batch_id}
DeleteSetStart(p, conc) ==
  /\ Arrives(p, conc)
  /\ calls < MaxCalls
  /\ calls' = calls + 1
  /\ \E f \in {ByBatch} \cup {ByBanana(b) : b \in Bananas} :
       req' = [req EXCEPT ![p] = SetResolve(Begin("deleteSet", UserOf(p), conc), f)]
  /\ UNCHANGED <<docs, blobs, audit, nextId, now, SOFT_DELETE_ENABLED>>

\* --------------------------------------------------- delete_gcs_objects_batch
\* get_gcs_client(), then executor.submit for every path
BatchSubmit(p) ==
  /\ req[p].pc = "batch"
  /\ \E client_ok \in BOOLEAN :
       req' = [req EXCEPT ![p] =
                 IF ~client_ok THEN Finish(@, "UnexpectedError")
                 ELSE [@ EXCEPT !.pc = "workers",
                                !.tasks = [k \in 1 .. Len(req[p].object_paths) |-> "queued"]]]
  /\ UNCHANGED <<docs, blobs, audit, nextId, now, calls, SOFT_DELETE_ENABLED>>

InFlight(r) == {k \in 1 .. Len(r.tasks) : r.tasks[k] = "running"}
Queued(r) == {k \in 1 .. Len(r.tasks) : r.tasks[k] = "queued"}

\* Mutant: every submitted deletion starts at once.
WorkerStart_Unbounded(p) ==
  /\ req[p].pc = "workers"
  /\ Queued(req[p]) # {}
  /\ LET k == CHOOSE x \in Queued(req[p]) : \A y \in Queued(req[p]) : x <= y
     IN req' = [req EXCEPT ![p] = [@ EXCEPT !.tasks[k] = "running"]]
  /\ UNCHANGED <<docs, blobs, audit, nextId, now, calls, SOFT_DELETE_ENABLED>>

\* A free worker of the pool takes the oldest queued deletion.
WorkerStart(p) ==
  /\ req[p].pc = "workers"
  /\ Queued(req[p]) # {}
  /\ Cardinality(InFlight(req[p])) < req[p].max_workers
  /\ LET k == CHOOSE x \in Queued(req[p]) : \A y \in Queued(req[p]) : x <= y
     IN req' = [req EXCEPT ![p] = [@ EXCEPT !.tasks[k] = "running"]]
  /\ UNCHANGED <<docs, blobs, audit, nextId, now, calls, SOFT_DELETE_ENABLED>>

\* Mutant: every completed future is counted as a success.
Tally_CountsAll(r, k, success) ==
  [r EXCEPT !.tasks[k] = "done", !.gcs_deleted = @ + 1]
\* Mutant: the first failure cancels the deletions that have not completed.
Tally_CancelsSiblings(r, k, success) ==
  IF success THEN [r EXCEPT !.tasks[k] = "done", !.gcs_deleted = @ + 1]
  ELSE [r EXCEPT !.tasks = [j \in 1 .. Len(r.tasks) |-> "done"],
                 !.gcs_errors = Append(@, ErrGcs(r.object_paths[k]))]

\* success, error = future.result(): count it or collect the error
Tally(r, k, success) ==
  IF success THEN [r EXCEPT !.tasks[k] = "done", !.gcs_deleted = @ + 1]
  ELSE [r EXCEPT !.tasks[k] = "done",
                 !.gcs_errors = Append(@, ErrGcs(r.object_paths[k]))]

\* delete_gcs_object in a worker thread completes, in any order
WorkerFinish(p) ==
  /\ req[p].pc = "workers"
  /\ \E k \in InFlight(req[p]) :
       \E success \in BlobDeleteOutcomes(req[p].object_paths[k]) :
         /\ blobs' = IF success THEN blobs \ {req[p].object_paths[k]} ELSE blobs
         /\ req' = [req EXCEPT ![p] =
                      Tally(Attempted(@, req[p].object_paths[k], success), k, success)]
  /\ UNCHANGED <<docs, audit, nextId, now, calls, SOFT_DELETE_ENABLED>>

\* Mutant: only a partial failure aborts.
SetGate_OnlyPartial(r) ==
  IF r.gcs_errors # <<>> /\ r.gcs_deleted > 0
  THEN LogThen(r, 0, r.gcs_deleted, FALSE, r.gcs_errors,
               "PartialObjectDeletionFailed", r.gcs_errors)
  ELSE [r EXCEPT !.pc = "db"]

\* Mutant: only a complete failure aborts; a partial one goes on to phase 2.
SetGate_OnlyAll(r) ==
  IF r.gcs_errors # <<>> /\ r.gcs_deleted = 0
  THEN LogThen(r, 0, r.gcs_deleted, FALSE, r.gcs_errors,
               "AllObjectDeletionsFailed", r.gcs_errors)
  ELSE [r EXCEPT !.pc = "db"]

\* Check for GCS failures: audit (0, gcs_deleted, False, gcs_errors) and raise
SetGate(r) ==
  IF r.gcs_errors # <<>>
  THEN LogThen(r, 0, r.gcs_deleted, FALSE, r.gcs_errors,
               IF r.gcs_deleted > 0 THEN "PartialObjectDeletionFailed"
               ELSE "AllObjectDeletionsFailed", r.gcs_errors)
  ELSE [r EXCEPT !.pc = "db"]
\* Mutant: the sweep applies the orchestrator's gate and stops on a failure.
BatchJoin_Gated(p) ==
  /\ req[p].pc = "workers"
  /\ \A k \in 1 .. Len(req[p].tasks) : req[p].tasks[k] = "done"
  /\ req' = [req EXCEPT ![p] = SetGate(@)]
  /\ UNCHANGED <<docs, blobs, audit, nextId, now, calls, SOFT_DELETE_ENABLED>>
\* Mutant: the batch returns as soon as one deletion has completed.
BatchJoin_Early(p) ==
  /\ req[p].pc = "workers"
  /\ \/ req[p].tasks = <<>>
     \/ \E k \in 1 .. Len(req[p].tasks) : req[p].tasks[k] = "done"
  /\ req' = [req EXCEPT ![p] = IF @.op = "deleteSet" THEN SetGate(@)
                               ELSE [@ EXCEPT !.pc = "db"]]
  /\ UNCHANGED <<docs, blobs, audit, nextId, now, calls, SOFT_DELETE_ENABLED>>

\* The executor has shut down and every future was consumed: the batch returns
\* (success_count, errors) to delete_multiple_images_transaction or to
\* cleanup_expired_soft_deletes, which goes on whatever the errors.
BatchJoin(p) ==
  /\ req[p].pc = "workers"
  /\ \A k \in 1 .. Len(req[p].tasks) : req[p].tasks[k] = "done"
  /\ req' = [req EXCEPT ![p] = IF @.op = "deleteSet" THEN SetGate(@)
                               ELSE [@ EXCEPT !.pc = "db"]]
  /\ UNCHANGED <<docs, blobs, audit, nextId, now, calls, SOFT_DELETE_ENABLED>>

\* Mutant: only a shortfall is a mismatch.
SetVerify_OnlyFewer(r, deleted_count) ==
  LET r1 == [r EXCEPT !.deleted_count = deleted_count]
  IN IF deleted_count < r.expected_count
     THEN LogThen(r1, deleted_count, r.gcs_deleted, FALSE,
                  <<ErrMismatch(r.expected_count, deleted_count)>>,
                  "RecordCountMismatch",
                  <<ErrMismatch(r.expected_count, deleted_count)>>)
     ELSE LogThen(r1, deleted_count, r.gcs_deleted, TRUE, <<>>, "Success", <<>>)

\* Phase 4: verify counts match, then audit and return
SetVerify(r, deleted_count) ==
  LET r1 == [r EXCEPT !.deleted_count = deleted_count]
  IN IF deleted_count # r.expected_count
     THEN LogThen(r1, deleted_count, r.gcs_deleted, FALSE,
                  <<ErrMismatch(r.expected_count, deleted_count)>>,
                  "RecordCountMismatch",
                  <<ErrMismatch(r.expected_count, deleted_count)>>)
     ELSE LogThen(r1, deleted_count, r.gcs_deleted, TRUE, <<>>, "Success", <<>>)

\* Phase 3: soft_delete_documents / hard_delete_documents on filter_query
SetDbDelete(p) ==
  /\ req[p].pc = "db"
  /\ req[p].op = "deleteSet"
  /\ \E db_ok \in BOOLEAN :
       LET f == req[p].filter
       IN IF ~db_ok
          THEN /\ req' = [req EXCEPT ![p] = Finish(@, "UnexpectedError")]
               /\ UNCHANGED <<docs, now>>
          ELSE IF SOFT_DELETE_ENABLED
          THEN /\ docs' = SoftDeleteStore(docs, f, req[p].user, now)
               /\ now' = now + 1
               /\ req' = [req EXCEPT ![p] =
                            LET n == SoftDeleteCount(docs, f, req[p].user, now)
                            IN SetVerify(Wrote(@, n), n)]
          ELSE /\ docs' = HardDeleteStore(docs, f)
               /\ now' = now
               /\ req' = [req EXCEPT ![p] =
                            LET n == HardDeleteCount(docs, f)
                            IN SetVerify(Wrote(@, n), n)]
  /\ UNCHANGED <<blobs, audit, nextId, calls, SOFT_DELETE_ENABLED>>
\* Mutant: the sweep takes every soft-deleted record, whatever its age.
ReapResolve_NoRetention(r) ==
  LET f == Expired(now + 1)
      expired_docs == FindList(docs, f)
      r1 == [r EXCEPT !.operation_type = "cleanup"]
  IN IF ~SOFT_DELETE_ENABLED THEN Finish(r1, "Success")
     ELSE IF expired_docs = <<>> THEN Finish([r1 EXCEPT !.filter = f], "Success")
     ELSE [r1 EXCEPT !.pc = "batch", !.filter = f, !.images = expired_docs,
                     !.expected_count = Len(expired_docs),
                     !.object_paths = ObjectPaths(expired_docs)]

\* ---------------------------------------------- cleanup_expired_soft_deletes
ReapResolve(r) ==
  LET f == Expired(now - SOFT_DELETE_RETENTION_DAYS)
      expired_docs == FindList(docs, f)
      r1 == [r EXCEPT !.operation_type = "cleanup"]
  IN IF ~SOFT_DELETE_ENABLED THEN Finish(r1, "Success")
     ELSE IF expired_docs = <<>> THEN Finish([r1 EXCEPT !.filter = f], "Success")
     ELSE [r1 EXCEPT !.pc = "batch", !.filter = f, !.images = expired_docs,
                     !.expected_count = Len(expired_docs),
                     !.object_paths = ObjectPaths(expired_docs)]

\* POST /maintenance/cleanup-soft-deletes
ReapStart(p, conc) ==
  /\ Arrives(p, conc)
  /\ calls < MaxCalls
  /\ calls' = calls + 1
  /\ req' = [req EXCEPT ![p] = ReapResolve(Begin("reap", "", conc))]
  /\ UNCHANGED <<docs, blobs, audit, nextId, now, SOFT_DELETE_ENABLED>>

\* Hard delete from MongoDB: delete_many on the same expiry filter
ReapDbDelete(p) ==
  /\ req[p].pc = "db"
  /\ req[p].op = "reap"
  /\ \E db_ok \in BOOLEAN :
       IF ~db_ok
       THEN /\ req' = [req EXCEPT ![p] = Finish(@, "UnexpectedError")]
            /\ docs' = docs
       ELSE /\ docs' = HardDeleteStore(docs, req[p].filter)
            /\ req' = [req EXCEPT ![p] =
                         LET n == HardDeleteCount(docs, req[p].filter)
                         IN Finish([Wrote(@, n) EXCEPT !.deleted_count = n], "Success")]
  /\ UNCHANGED <<blobs, audit, nextId, now, calls, SOFT_DELETE_ENABLED>>
\* Mutant: an exception of the audit sink reaches the caller.
LogDeletionAudit_Raises(p, sink_faults) ==
  /\ req[p].pc = "audit"
  /\ \E sink_ok \in (IF sink_faults THEN BOOLEAN ELSE {TRUE}) :
       /\ audit' = IF sink_ok THEN Append(audit, req[p].pending) ELSE audit
       /\ req' = [req EXCEPT ![p] =
                    Finish([@ EXCEPT !.audit_calls = @ + 1,
                                     !.audit_lost = ~sink_ok],
                           IF sink_ok THEN req[p].outcome ELSE "UnexpectedError")]
  /\ UNCHANGED <<docs, blobs, nextId, now, calls, SOFT_DELETE_ENABLED>>
\* Mutant: the audit entry replaces what the collection held.
LogDeletionAudit_Replaces(p, sink_faults) ==
  /\ req[p].pc = "audit"
  /\ audit' = <<req[p].pending>>
  /\ req' = [req EXCEPT ![p] =
               Finish([@ EXCEPT !.audit_calls = @ + 1], req[p].outcome)]
  /\ UNCHANGED <<docs, blobs, nextId, now, calls, SOFT_DELETE_ENABLED>>

\* ------------------------------------------------------- log_deletion_audit
\* insert_one(audit_record); an exception of the sink is swallowed
LogDeletionAudit(p, sink_faults) ==
  /\ req[p].pc = "audit"
  /\ \E sink_ok \in (IF sink_faults THEN BOOLEAN ELSE {TRUE}) :
       /\ audit' = IF sink_ok THEN Append(audit, req[p].pending) ELSE audit
       /\ req' = [req EXCEPT ![p] =
                    Finish([@ EXCEPT !.audit_calls = @ + 1,
                                     !.audit_lost = ~sink_ok], req[p].outcome)]
  /\ UNCHANGED <<docs, blobs, nextId, now, calls, SOFT_DELETE_ENABLED>>

\* The response has been sent; the request's locals are gone.
Return(p) ==
  /\ req[p].pc = "done"
  /\ req' = [req EXCEPT ![p] = IdleReq]
  /\ UNCHANGED <<docs, blobs, audit, nextId, now, calls, SOFT_DELETE_ENABLED>>
\* ------------------------------------------------------------ reads (app.py)
RECURSIVE Reverse(_)
Reverse(s) == IF s = <<>> THEN <<>> ELSE Append(Reverse(Tail(s)), Head(s))

\* limit = min(max(1, limit), 200)
ClampLimit(limit) ==
  LET lo == IF limit < 1 THEN 1 ELSE limit
  IN IF lo > MaxAuditLimit THEN MaxAuditLimit ELSE lo

\* cursor.skip(skip).limit(limit)
Page(s, skip, limit) ==
  SubSeq(s, skip + 1, IF Len(s) < skip + limit THEN Len(s) ELSE skip + limit)

\* A read request: no orchestrator invocation, only the response is kept.
ReadReq(op) == [IdleReq EXCEPT !.op = op]

\* GET /audit/deletions: count_documents and find on deletion_audit, newest first
GetDeletionAudit(p, conc) ==
  /\ Arrives(p, conc)
  /\ \E operation_type \in {"", "image", "banana", "batch", "other"},
        limit \in {0, DefaultAuditLimit}, skip \in {0, 1} :
       LET matching == SelectSeq(audit, LAMBDA e : operation_type = ""
                                                   \/ e.operationType = operation_type)
       IN req' = [req EXCEPT ![p] =
            IF operation_type \notin {"", "image", "banana", "batch"}
            THEN Finish(ReadReq("listAudits"), "InvalidOperationType")
            ELSE Finish([ReadReq("listAudits") EXCEPT
                           !.total = Len(matching),
                           !.audits = Page(Reverse(matching), skip, ClampLimit(limit))],
                        "Success")]
  /\ UNCHANGED <<docs, blobs, audit, nextId, now, calls, SOFT_DELETE_ENABLED>>

\* GET /batches/{batch_id}: find({"batchId": batch_id})
GetBatchImages(p, conc) ==
  /\ Arrives(p, conc)
  /\ req' = [req EXCEPT ![p] =
               Finish([ReadReq("batchImages") EXCEPT !.filter = ByBatch,
                         !.images = FindList(docs, ByBatch)], "Success")]
  /\ UNCHANGED <<docs, blobs, audit, nextId, now, calls, SOFT_DELETE_ENABLED>>

\* GET /bananas/{batch_id}/{banana_id}: find({"batchId", "bananaId"})
GetBananaTimeline(p, conc) ==
  /\ Arrives(p, conc)
  /\ \E b \in Bananas :
       req' = [req EXCEPT ![p] =
                 Finish([ReadReq("bananaTimeline") EXCEPT !.filter = ByBanana(b),
                           !.images = FindList(docs, ByBanana(b))], "Success")]
  /\ UNCHANGED <<docs, blobs, audit, nextId, now, calls, SOFT_DELETE_ENABLED>>

\* GET /lookup-banana/{banana_id}: the latest capture and count_documents
LookupBanana(p, conc) ==
  /\ Arrives(p, conc)
  /\ \E b \in Bananas :
       LET results == Page(Reverse(FindList(docs, ByBanana(b))), 0, 1)
       IN req' = [req EXCEPT ![p] =
                    Finish([ReadReq("lookupBanana") EXCEPT !.filter = ByBanana(b),
                              !.images = results,
                              !.total = IF results = <<>> THEN 0
                                        ELSE HardDeleteCount(docs, ByBanana(b))],
                           "Success")]
  /\ UNCHANGED <<docs, blobs, audit, nextId, now, calls, SOFT_DELETE_ENABLED>>

\* GET /analytics/counts: count_documents({})
GetAnalyticsCounts(p, conc) ==
  /\ Arrives(p, conc)
  /\ req' = [req EXCEPT ![p] =
               Finish([ReadReq("counts") EXCEPT
                         !.total = Cardinality({i \in Ids : docs[i].present})],
                      "Success")]
  /\ UNCHANGED <<docs, blobs, audit, nextId, now, calls, SOFT_DELETE_ENABLED>>
\* --------------------------------------------- responses of the endpoints
\* The exception a failed invocation raises: its class and str(e), in words.
ExceptionOf(r) ==
  CASE r.result = "InvalidIdentifier" ->
         [type |-> "ValueError", message |-> <<"Invalid", "document", "ID">>]
    [] r.result = "NotFound" /\ r.op = "deleteImage" ->
         [type |-> "ValueError", message |-> <<"Document", "not", "found">>]
    [] r.result = "NotFound" ->
         [type |-> "ValueError",
          message |-> <<"No", "images", "found", "for", r.operation_type>>]
    [] r.result = "MissingPath" ->
         [type |-> "ValueError", message |-> <<"Document", "has", "no", "objectPath">>]
    [] r.result = "ObjectStoreDeletionFailed" ->
         [type |-> "DeletionError", message |-> <<"GCS", "deletion", "failed">>]
    [] r.result = "OrphanedObjectAfterPartialDeletion" ->
         [type |-> "DeletionError",
          message |-> <<"MongoDB", "deletion", "failed", "after", "GCS",
                        "deletion", "succeeded">>]
    [] r.result = "PartialObjectDeletionFailed" ->
         [type |-> "DeletionError", message |-> <<"Partial", "GCS", "deletion">>]
    [] r.result = "AllObjectDeletionsFailed" ->
         [type |-> "DeletionError", message |-> <<"All", "GCS", "deletions", "failed">>]
    [] r.result = "RecordCountMismatch" ->
         [type |-> "DeletionError", message |-> <<"Count", "mismatch">>]
    [] OTHER -> [type |-> "Exception", message |-> <<>>]

\* "not found" in str(e).lower()
ContainsNotFound(message) ==
  \E k \in 1 .. Len(message) - 1 : message[k] = "not" /\ message[k + 1] = "found"

\* Mutant: every failure is answered with the generic server error.
HttpResponse_Generic(r) ==
  IF r.result = "Success"
  THEN [status |-> 200, message |-> <<>>, errors |-> <<>>, generic |-> FALSE]
  ELSE [status |-> 500, message |-> <<"Failed", "to", "delete">>,
        errors |-> <<>>, generic |-> TRUE]

\* The except clauses of delete_image, delete_banana and delete_batch
HttpResponse(r) ==
  LET e == ExceptionOf(r)
  IN IF r.result = "Success"
     THEN [status |-> 200, message |-> <<>>, errors |-> <<>>, generic |-> FALSE]
     ELSE IF e.type = "ValueError"
     THEN [status |-> IF r.op = "deleteImage"
                      THEN (IF ContainsNotFound(e.message) THEN 404 ELSE 400)
                      ELSE 404,
           message |-> e.message, errors |-> <<>>, generic |-> FALSE]
     ELSE IF e.type = "DeletionError"
     THEN [status |-> 500, message |-> e.message, errors |-> r.raised,
           generic |-> FALSE]
     ELSE [status |-> 500, message |-> <<"Failed", "to", "delete">>,
           errors |-> <<>>, generic |-> TRUE]

\* --------------------------------------------------------- specifications
\* One request at a time: requests and ingestion do not overlap.
Next ==
  \/ SaveMetadata(FALSE)
  \/ Quiet /\ UploadBlob
  \/ Elapse(FALSE)
  \/ DeleteImageStart(1, FALSE)
  \/ ImgGcsDelete(1)
  \/ ImgDbDelete(1)
  \/ DeleteSetStart(1, FALSE)
  \/ BatchSubmit(1)
  \/ WorkerStart(1)
  \/ WorkerFinish(1)
  \/ BatchJoin(1)
  \/ SetDbDelete(1)
  \/ ReapStart(1, FALSE)
  \/ ReapDbDelete(1)
  \/ LogDeletionAudit(1, FALSE)
  \/ GetDeletionAudit(1, FALSE)
  \/ GetBatchImages(1, FALSE)
  \/ GetBananaTimeline(1, FALSE)
  \/ LookupBanana(1, FALSE)
  \/ GetAnalyticsCounts(1, FALSE)
  \/ Return(1)

Spec == Init /\ [][Next]_vars

\* One request at a time, with an audit collection whose insert_one may fail.
NextSink ==
  \/ SaveMetadata(FALSE)
  \/ Elapse(FALSE)
  \/ DeleteImageStart(1, FALSE)
  \/ ImgGcsDelete(1)
  \/ ImgDbDelete(1)
  \/ DeleteSetStart(1, FALSE)
  \/ BatchSubmit(1)
  \/ WorkerStart(1)
  \/ WorkerFinish(1)
  \/ BatchJoin(1)
  \/ SetDbDelete(1)
  \/ ReapStart(1, FALSE)
  \/ ReapDbDelete(1)
  \/ LogDeletionAudit(1, TRUE)
  \/ Return(1)

SpecSink == Init /\ [][NextSink]_vars

\* Requests, ingestion and uploads interleave at every store call.
NextConc ==
  \/ SaveMetadata(TRUE)
  \/ UploadBlob
  \/ Elapse(TRUE)
  \/ \E p \in Procs :
       \/ DeleteImageStart(p, TRUE)
       \/ ImgGcsDelete(p)
       \/ ImgDbDelete(p)
       \/ DeleteSetStart(p, TRUE)
       \/ BatchSubmit(p)
       \/ WorkerStart(p)
       \/ WorkerFinish(p)
       \/ BatchJoin(p)
       \/ SetDbDelete(p)
       \/ ReapStart(p, TRUE)
       \/ ReapDbDelete(p)
       \/ LogDeletionAudit(p, FALSE)
       \/ Return(p)

SpecConc == Init /\ [][NextConc]_vars
\* One request at a time, every object written once (at ingestion).
NextWriteOnce ==
  \/ SaveMetadata(FALSE)
  \/ Elapse(FALSE)
  \/ DeleteImageStart(1, FALSE)
  \/ ImgGcsDelete(1)
  \/ ImgDbDelete(1)
  \/ DeleteSetStart(1, FALSE)
  \/ BatchSubmit(1)
  \/ WorkerStart(1)
  \/ WorkerFinish(1)
  \/ BatchJoin(1)
  \/ SetDbDelete(1)
  \/ ReapStart(1, FALSE)
  \/ ReapDbDelete(1)
  \/ LogDeletionAudit(1, FALSE)
  \/ Return(1)

SpecWriteOnce == Init /\ [][NextWriteOnce]_vars

\* delete_gcs_objects_batch on its own: any list of distinct paths, any
\* object store, any worker limit; a worker that is given a deletion runs it
\* to its end.
PathLists ==
  {s \in UNION {[1 .. n -> Paths] : n \in 0 .. MaxDocs} :
     \A j, k \in 1 .. Len(s) : s[j] = s[k] => j = k}

InitPool ==
  /\ docs = [i \in Ids |-> NoDoc]
  /\ blobs \in SUBSET Paths
  /\ audit = <<>>
  /\ nextId = MaxDocs + 1
  /\ now = 1
  /\ calls = 0
  /\ SOFT_DELETE_ENABLED = FALSE
  /\ \E object_paths \in PathLists, limit \in 1 .. MaxWorkers :
       req = [p \in Procs |->
                IF p = 1
                THEN [IdleReq EXCEPT !.op = "deleteMany", !.pc = "batch",
                                     !.object_paths = object_paths,
                                     !.max_workers = limit]
                ELSE IdleReq]

NextPool ==
  \/ BatchSubmit(1)
  \/ WorkerStart(1)
  \/ WorkerFinish(1)
  \/ BatchJoin(1)

SpecPool ==
  /\ InitPool /\ [][NextPool]_vars
  /\ WF_vars(WorkerStart(1)) /\ WF_vars(WorkerFinish(1))
\* The retention sweep next to other deletion requests, in soft-delete mode,
\* on a store that already holds live records, records soft-deleted before
\* the retention period and records soft-deleted within it.
SweepDocs(i) ==
  {NoDoc}
    \cup {NewDoc(1, path) : path \in PathChoices(i)}
    \cup {SoftMarked(NewDoc(1, path), UserOf(1), at) :
            path \in PathChoices(i), at \in {1, SOFT_DELETE_RETENTION_DAYS + 2}}

InitSweep ==
  /\ docs \in [Ids -> UNION {SweepDocs(i) : i \in Ids}]
  /\ \A i \in Ids : docs[i] \in SweepDocs(i)
  /\ blobs \in SUBSET {docs[i].objectPath : i \in Ids}
  /\ NoPath \notin blobs
  /\ audit = <<>>
  /\ nextId = MaxDocs + 1
  /\ now = SOFT_DELETE_RETENTION_DAYS + 3
  /\ calls = 0
  /\ SOFT_DELETE_ENABLED = TRUE
  /\ req = [p \in Procs |-> IdleReq]

NextSweep ==
  \E p \in Procs :
    \/ ReapStart(p, TRUE)
    \/ ReapDbDelete(p)
    \/ DeleteImageStart(p, TRUE)
    \/ ImgGcsDelete(p)
    \/ ImgDbDelete(p)
    \/ DeleteSetStart(p, TRUE)
    \/ BatchSubmit(p)
    \/ WorkerStart(p)
    \/ WorkerFinish(p)
    \/ BatchJoin(p)
    \/ SetDbDelete(p)
    \/ LogDeletionAudit(p, FALSE)
    \/ Return(p)

\* The steps of a request that has started: each store call returns.
Progress(p) ==
  \/ ImgGcsDelete(p)
  \/ ImgDbDelete(p)
  \/ BatchSubmit(p)
  \/ WorkerStart(p)
  \/ WorkerFinish(p)
  \/ BatchJoin(p)
  \/ SetDbDelete(p)
  \/ ReapDbDelete(p)
  \/ LogDeletionAudit(p, FALSE)

SpecSweep ==
  /\ InitSweep /\ [][NextSweep]_vars
  /\ \A p \in Procs : WF_vars(Progress(p))

\* ------------------------------------------------------------------ claims
\* The audit entries written by invocation c.
AuditOf(c) == SelectSeq(audit, LAMBDA e : e.call = c)

Oks(r) == Cardinality({k \in 1 .. Len(r.attempts) : r.attempts[k].ok})
Fails(r) == Cardinality({k \in 1 .. Len(r.attempts) : ~r.attempts[k].ok})

\* The batch has returned: every submitted deletion was attempted.
BatchReturned(r) ==
  /\ r.pc \in {"db", "audit", "done"}
  /\ Len(r.attempts) = Len(r.object_paths)

\* The records the invocation resolved are in the record store as resolved.
ImagesIntact(r) ==
  \A k \in 1 .. Len(r.images) : docs[r.images[k].id] = r.images[k].doc

\* C1: deleteImage whose single object deletion fails aborts with
\* ObjectStoreDeletionFailed, never reaches the record store (the record is
\* still there, as it was resolved) and leaves exactly one audit entry, with
\* success = false, deletedCount = 0, gcsDeletedCount = 0 and the reason.
C1_ObjectStoreFailureAborts ==
  \A p \in Procs :
    LET r == req[p]
    IN (r.op = "deleteImage" /\ Len(r.attempts) = 1 /\ ~r.attempts[1].ok) =>
         /\ r.pc \in {"audit", "done"}
         /\ r.db_writes = 0
         /\ docs = r.snap_docs
         /\ docs[r.document_id].present
         /\ docs[r.document_id] = r.document
         /\ (r.pc = "done" =>
               /\ r.result = "ObjectStoreDeletionFailed"
               /\ Len(AuditOf(r.call)) = 1
               /\ ~AuditOf(r.call)[1].success
               /\ AuditOf(r.call)[1].deletedCount = 0
               /\ AuditOf(r.call)[1].gcsDeletedCount = 0
               /\ AuditOf(r.call)[1].errors = <<ErrGcs(r.object_path)>>)

C1_Witness ==
  \E p \in Procs :
    /\ req[p].op = "deleteImage" /\ req[p].pc = "done"
    /\ Len(req[p].attempts) = 1 /\ ~req[p].attempts[1].ok
    /\ req[p].result = "ObjectStoreDeletionFailed"
    /\ req[p].object_path \in blobs
    /\ ~docs[req[p].document_id].isDeleted
    /\ Len(AuditOf(req[p].call)) = 1

\* C2: deleteImage whose object deletion and record deletion both succeed
\* returns the record as resolved, leaves exactly one audit entry with
\* gcsDeletedCount = 1, deletedCount = 1, success = true, and the record is
\* gone (hard mode) or still present, flagged with the actor and the time of
\* the update (soft mode); no other record changes.
C2_FullSuccess ==
  \A p \in Procs :
    LET r == req[p]
        id == r.document_id
    IN (/\ r.op = "deleteImage" /\ r.pc = "done"
        /\ Len(r.attempts) = 1 /\ r.attempts[1].ok
        /\ r.db_writes = 1 /\ r.db_count >= 1) =>
         /\ r.result = "Success"
         /\ r.document.present /\ r.document = r.snap_docs[id]
         /\ r.deleted_count = 1 /\ r.gcs_deleted = 1
         /\ Len(AuditOf(r.call)) = 1
         /\ AuditOf(r.call)[1].success
         /\ AuditOf(r.call)[1].deletedCount = 1
         /\ AuditOf(r.call)[1].gcsDeletedCount = 1
         /\ r.object_path \notin blobs
         /\ \A i \in Ids \ {id} : docs[i] = r.snap_docs[i]
         /\ IF SOFT_DELETE_ENABLED
            THEN docs[id] = SoftMarked(r.document, r.user, now - 1)
            ELSE ~docs[id].present

C2_Witness ==
  \E p \in Procs :
    /\ req[p].op = "deleteImage" /\ req[p].pc = "done"
    /\ req[p].result = "Success"
    /\ SOFT_DELETE_ENABLED
    /\ docs[req[p].document_id].isDeleted
    /\ docs[req[p].document_id].deletedBy = req[p].user
    /\ Len(AuditOf(req[p].call)) = 1

\* C3: deleteImage whose object deletion succeeds and whose record deletion
\* reports zero records fails with OrphanedObjectAfterPartialDeletion and
\* leaves one audit entry with gcsDeletedCount = 1, deletedCount = 0,
\* success = false; it does not report success.
C3_Orphan ==
  \A p \in Procs :
    LET r == req[p]
    IN (/\ r.op = "deleteImage"
        /\ Len(r.attempts) = 1 /\ r.attempts[1].ok
        /\ r.db_writes = 1 /\ r.db_count = 0) =>
         /\ r.pc \in {"audit", "done"}
         /\ r.outcome = "OrphanedObjectAfterPartialDeletion"
         /\ (r.pc = "done" =>
               /\ r.result = "OrphanedObjectAfterPartialDeletion"
               /\ Len(AuditOf(r.call)) = 1
               /\ ~AuditOf(r.call)[1].success
               /\ AuditOf(r.call)[1].gcsDeletedCount = 1
               /\ AuditOf(r.call)[1].deletedCount = 0)

C3_Witness ==
  \E p \in Procs :
    /\ req[p].op = "deleteImage" /\ req[p].pc = "done"
    /\ Len(req[p].attempts) = 1 /\ req[p].attempts[1].ok
    /\ req[p].db_writes = 1 /\ req[p].db_count = 0
    /\ req[p].result = "OrphanedObjectAfterPartialDeletion"
    /\ Len(AuditOf(req[p].call)) = 1

\* C4: deleteSet all of whose object deletions fail aborts with
\* AllObjectDeletionsFailed, leaves one failed audit entry with
\* deletedCount = 0 and gcsDeletedCount = 0, and writes nothing to the record
\* store: find(filter) returns the records it returned before.
C4_AllObjectDeletionsFailed ==
  \A p \in Procs :
    LET r == req[p]
    IN (/\ r.op = "deleteSet" /\ BatchReturned(r)
        /\ Len(r.attempts) >= 1 /\ Oks(r) = 0) =>
         /\ r.pc \in {"audit", "done"}
         /\ r.db_writes = 0
         /\ docs = r.snap_docs
         /\ FindList(docs, r.filter) = r.images
         /\ (r.pc = "done" =>
               /\ r.result = "AllObjectDeletionsFailed"
               /\ Len(AuditOf(r.call)) = 1
               /\ ~AuditOf(r.call)[1].success
               /\ AuditOf(r.call)[1].deletedCount = 0
               /\ AuditOf(r.call)[1].gcsDeletedCount = 0
               /\ Len(AuditOf(r.call)[1].errors) = Len(r.attempts))

C4_Witness ==
  \E p \in Procs :
    /\ req[p].op = "deleteSet" /\ req[p].pc = "done"
    /\ Len(req[p].attempts) = 2 /\ Oks(req[p]) = 0
    /\ req[p].result = "AllObjectDeletionsFailed"
    /\ FindList(docs, req[p].filter) = req[p].images
    /\ Len(AuditOf(req[p].call)) = 1

\* C5: deleteSet some but not all of whose object deletions fail aborts with
\* PartialObjectDeletionFailed before it writes to the record store (every
\* matched record is still returned by find(filter), as resolved), and leaves
\* one failed audit entry with gcsDeletedCount = the successful object
\* deletions and deletedCount = 0.
C5_PartialObjectDeletionFailed ==
  \A p \in Procs :
    LET r == req[p]
    IN (/\ r.op = "deleteSet" /\ BatchReturned(r)
        /\ Oks(r) >= 1 /\ Fails(r) >= 1) =>
         /\ r.pc \in {"audit", "done"}
         /\ r.db_writes = 0
         /\ docs = r.snap_docs
         /\ FindList(docs, r.filter) = r.images
         /\ ImagesIntact(r)
         /\ (r.pc = "done" =>
               /\ r.result = "PartialObjectDeletionFailed"
               /\ Len(AuditOf(r.call)) = 1
               /\ ~AuditOf(r.call)[1].success
               /\ AuditOf(r.call)[1].gcsDeletedCount = Oks(r)
               /\ AuditOf(r.call)[1].deletedCount = 0)

C5_Witness ==
  \E p \in Procs :
    /\ req[p].op = "deleteSet" /\ req[p].pc = "done"
    /\ Oks(req[p]) = 1 /\ Fails(req[p]) = 1
    /\ req[p].result = "PartialObjectDeletionFailed"
    /\ FindList(docs, req[p].filter) = req[p].images
    /\ AuditOf(req[p].call)[1].gcsDeletedCount = 1

\* C6: deleteSet all of whose object deletions succeed and whose record
\* deletion returns a count other than expectedCount (smaller or larger)
\* fails with RecordCountMismatch and leaves one failed audit entry that
\* holds the expected count, the actual count and the object-deletion count;
\* nothing is retried: one record-store write, one attempt per path.
C6_CountMismatch ==
  \A p \in Procs :
    LET r == req[p]
    IN (/\ r.op = "deleteSet" /\ BatchReturned(r) /\ Fails(r) = 0
        /\ r.db_writes >= 1 /\ r.db_count # r.expected_count) =>
         /\ r.pc \in {"audit", "done"}
         /\ r.outcome = "RecordCountMismatch"
         /\ r.db_writes = 1
         /\ Len(r.attempts) = Len(r.object_paths)
         /\ (r.pc = "done" =>
               /\ r.result = "RecordCountMismatch"
               /\ Len(AuditOf(r.call)) = 1
               /\ ~AuditOf(r.call)[1].success
               /\ AuditOf(r.call)[1].errors =
                    <<ErrMismatch(r.expected_count, r.db_count)>>
               /\ AuditOf(r.call)[1].deletedCount = r.db_count
               /\ AuditOf(r.call)[1].gcsDeletedCount = Oks(r))

C6_Witness ==
  \E p \in Procs :
    /\ req[p].op = "deleteSet" /\ req[p].pc = "done"
    /\ Fails(req[p]) = 0 /\ Oks(req[p]) >= 1
    /\ req[p].db_count > req[p].expected_count
    /\ req[p].result = "RecordCountMismatch"
    /\ Len(AuditOf(req[p].call)) = 1

\* The other direction of the mismatch: fewer records deleted than resolved.
C6_WitnessFewer ==
  \E p \in Procs :
    /\ req[p].op = "deleteSet" /\ req[p].pc = "done"
    /\ req[p].db_writes = 1
    /\ req[p].db_count < req[p].expected_count
    /\ req[p].result = "RecordCountMismatch"

\* C7: deleteSet returns success only if no object deletion failed and the
\* record deletion returned expectedCount = the number of records resolved;
\* it then has written one audit entry with success = true, deletedCount =
\* expectedCount, gcsDeletedCount = the object deletions performed, and it
\* returns the matched records and both counts.
C7_SetSuccess ==
  \A p \in Procs :
    LET r == req[p]
    IN (r.op = "deleteSet" /\ r.pc = "done" /\ r.result = "Success") =>
         /\ Fails(r) = 0
         /\ Len(r.attempts) = Len(r.object_paths)
         /\ r.db_writes = 1
         /\ r.db_count = r.expected_count
         /\ r.expected_count = Len(r.images)
         /\ r.images = FindList(r.snap_docs, r.filter)
         /\ r.images # <<>>
         /\ r.deleted_count = r.expected_count
         /\ r.gcs_deleted = Oks(r)
         /\ Len(AuditOf(r.call)) = 1
         /\ AuditOf(r.call)[1].success
         /\ AuditOf(r.call)[1].deletedCount = r.expected_count
         /\ AuditOf(r.call)[1].gcsDeletedCount = Len(r.attempts)

C7_Witness ==
  \E p \in Procs :
    /\ req[p].op = "deleteSet" /\ req[p].pc = "done"
    /\ req[p].result = "Success"
    /\ req[p].expected_count = 2 /\ Oks(req[p]) = 2
    /\ Find(docs, req[p].filter) = {}
    /\ AuditOf(req[p].call)[1].deletedCount = 2

PreconditionFailures == {"InvalidIdentifier", "NotFound", "MissingPath"}

PostAttemptFailures ==
  {"ObjectStoreDeletionFailed", "AllObjectDeletionsFailed",
   "PartialObjectDeletionFailed", "OrphanedObjectAfterPartialDeletion",
   "RecordCountMismatch"}

\* C8, as claimed: every invocation, whatever its terminal state, has
\* appended exactly one audit entry when it returns.
C8_ExactlyOneAuditPerInvocation ==
  \A p \in Procs :
    req[p].pc = "done" => Len(AuditOf(req[p].call)) = 1

\* C8, amended: an invocation of deleteImage or deleteSet that returns
\* success or a post-attempt failure has called the audit append exactly
\* once, as its last step; one that returns a pre-condition failure, and
\* every reapExpiredSoftDeletes, has appended nothing; no invocation ever
\* appends twice.
C8_AuditByTerminalState ==
  /\ \A c \in 1 .. calls : Len(AuditOf(c)) <= 1
  /\ \A p \in Procs :
       LET r == req[p]
       IN /\ r.pc \notin {"idle", "done"} => Len(AuditOf(r.call)) = 0
          /\ (/\ r.pc = "done" /\ r.op \in {"deleteImage", "deleteSet"}
              /\ r.result \in PostAttemptFailures \cup {"Success"}) =>
                (Len(AuditOf(r.call)) = 1 /\ r.audit_calls = 1)
          /\ (/\ r.pc = "done"
              /\ (r.result \in PreconditionFailures \/ r.op = "reap")) =>
                (Len(AuditOf(r.call)) = 0 /\ r.audit_calls = 0)

C8_Witness ==
  \E p \in Procs :
    /\ req[p].pc = "done" /\ req[p].call = 2
    /\ req[p].result = "NotFound"
    /\ Len(AuditOf(2)) = 0
    /\ Len(AuditOf(1)) = 1
    /\ ~AuditOf(1)[1].success

\* C9: whenever deleteImage or deleteSet returns an error after it attempted
\* an object deletion, an audit entry of the invocation has been appended.
C9_AuditBeforeError ==
  \A p \in Procs :
    LET r == req[p]
    IN (/\ r.op \in {"deleteImage", "deleteSet"} /\ r.pc = "done"
        /\ r.result # "Success" /\ Len(r.attempts) >= 1) =>
         Len(AuditOf(r.call)) >= 1

\* C10: a pre-condition failure (InvalidIdentifier, NotFound, MissingPath of
\* deleteImage; NotFound of deleteSet) is returned exactly when the
\* pre-condition fails, at once, with no object deletion attempted, no
\* record-store write, and both stores as they were before the call.
C10_PreconditionFailuresAttemptNothing ==
  \A p \in Procs :
    LET r == req[p]
        id == r.document_id
        failed == r.pc = "done" /\ r.result \in PreconditionFailures
    IN /\ failed =>
            /\ r.attempts = <<>> /\ r.db_writes = 0
            /\ docs = r.snap_docs /\ blobs = r.snap_blobs
       /\ r.op = "deleteImage" =>
            /\ failed <=> (\/ id = BadId
                           \/ ~r.snap_docs[id].present
                           \/ r.snap_docs[id].objectPath = NoPath)
            /\ failed =>
                 r.result = IF id = BadId THEN "InvalidIdentifier"
                            ELSE IF ~r.snap_docs[id].present THEN "NotFound"
                            ELSE "MissingPath"
       /\ r.op = "deleteSet" =>
            /\ failed <=> Find(r.snap_docs, r.filter) = {}
            /\ failed => r.result = "NotFound"

C10_Witness ==
  \E p \in Procs :
    /\ req[p].op = "deleteImage" /\ req[p].pc = "done"
    /\ req[p].result = "MissingPath"
    /\ docs[req[p].document_id].present
    /\ blobs # {}
    /\ docs = req[p].snap_docs /\ blobs = req[p].snap_blobs

\* C11: in every execution, concurrent ingestion and deletion requests
\* included, a record that has an object path is removed or soft-marked by a
\* record-store write of deleteImage / deleteSet only if the same invocation
\* successfully deleted that record's object before.
C11_BlobDeletionGatesRecordRemoval ==
  [][\A p \in Procs :
       (/\ req[p].op \in {"deleteImage", "deleteSet"}
        /\ req[p].pc = "db" /\ req'[p].pc # "db") =>
          \A i \in Ids :
            (docs'[i] # docs[i] /\ docs[i].objectPath # NoPath) =>
              \E k \in 1 .. Len(req[p].attempts) :
                req[p].attempts[k] = [path |-> docs[i].objectPath, ok |-> TRUE]]_vars

\* C12: with soft delete enabled, reapExpiredSoftDeletes, whatever the
\* outcomes of its object deletions, attempts the object of every expired
\* soft-deleted record that has a path, goes on to hard-remove every one of
\* those records, and returns the number of records removed.
C12_SweepDoesNotAbort ==
  \A p \in Procs :
    LET r == req[p]
        expired == Find(r.snap_docs, Expired(now - SOFT_DELETE_RETENTION_DAYS))
    IN (/\ r.op = "reap" /\ SOFT_DELETE_ENABLED
        /\ BatchReturned(r) /\ r.result # "UnexpectedError") =>
         /\ r.pc \in {"db", "done"}
         /\ {r.images[k].id : k \in 1 .. Len(r.images)} = expired
         /\ {r.attempts[k].path : k \in 1 .. Len(r.attempts)} =
              {r.snap_docs[i].objectPath : i \in expired} \ {NoPath}
         /\ (r.pc = "done" =>
               /\ r.result = "Success"
               /\ \A i \in expired : ~docs[i].present
               /\ \A i \in Ids \ expired : docs[i] = r.snap_docs[i]
               /\ r.deleted_count = Cardinality(expired)
               /\ (expired # {} => r.db_writes = 1))

C12_Witness ==
  \E p \in Procs :
    /\ req[p].op = "reap" /\ req[p].pc = "done"
    /\ req[p].result = "Success"
    /\ Oks(req[p]) = 1 /\ Fails(req[p]) = 1
    /\ req[p].deleted_count = 2
    /\ \A i \in Ids : ~docs[i].present

\* C13: in hard-delete mode, once a deleteImage(id) has succeeded, every
\* later deleteImage(id) returns NotFound, attempts no object deletion and no
\* record-store write, appends no audit entry, and leaves both stores and
\* the audit log as the first call left them.
C13_HardDeleteIdempotent ==
  \A p \in Procs :
    LET r == req[p]
        earlier == {k \in 1 .. Len(audit) :
                      /\ audit[k].call < r.call /\ audit[k].success
                      /\ audit[k].operationType = "image"
                      /\ audit[k].target.documentId = r.document_id}
    IN (/\ r.op = "deleteImage" /\ r.pc # "idle" /\ ~SOFT_DELETE_ENABLED
        /\ earlier # {}) =>
         /\ r.pc = "done" /\ r.result = "NotFound"
         /\ r.attempts = <<>> /\ r.db_writes = 0
         /\ r.audit_calls = 0 /\ AuditOf(r.call) = <<>>
         /\ docs = r.snap_docs /\ blobs = r.snap_blobs
         /\ ~docs[r.document_id].present
         /\ \A k \in 1 .. Len(audit) : audit[k].call # r.call

C13_Witness ==
  \E p \in Procs :
    /\ req[p].op = "deleteImage" /\ req[p].pc = "done" /\ req[p].call = 2
    /\ ~SOFT_DELETE_ENABLED
    /\ Len(audit) = 1 /\ audit[1].call = 1 /\ audit[1].success
    /\ audit[1].target.documentId = req[p].document_id
    /\ req[p].result = "NotFound"

\* C14, as claimed: of two deleteImage requests for the same identifier that
\* are in progress together, whenever one completes the deletion the other
\* one returns NotFound.
C14_SecondObservesNotFound ==
  \A p, q \in Procs :
    (/\ p # q
     /\ req[p].op = "deleteImage" /\ req[q].op = "deleteImage"
     /\ req[p].document_id = req[q].document_id
     /\ req[p].pc = "done" /\ req[q].pc = "done"
     /\ req[p].result = "Success"
     /\ req[q].result # "UnexpectedError") =>
       req[q].result = "NotFound"

\* C14, amended: two deleteImage requests for the same identifier are not
\* serialised.  In hard-delete mode at most one of them returns success, and
\* only after its own object deletion and a record deletion of one record;
\* the other returns NotFound only if it resolved the identifier after the
\* record was removed (it then attempts nothing), and otherwise fails after
\* its object deletion: ObjectStoreDeletionFailed, or
\* OrphanedObjectAfterPartialDeletion if the object was written again.
C14_ConcurrentSameIdentifier ==
  \A p, q \in Procs :
    LET r == req[p]
        s == req[q]
    IN (/\ p # q /\ ~SOFT_DELETE_ENABLED
        /\ r.op = "deleteImage" /\ s.op = "deleteImage"
        /\ r.document_id = s.document_id
        /\ r.pc = "done" /\ r.result = "Success") =>
         /\ Oks(r) = 1 /\ r.db_writes = 1 /\ r.db_count = 1
         /\ s.result # "Success"
         /\ s.pc = "done" =>
              /\ s.result \in {"NotFound", "ObjectStoreDeletionFailed",
                               "OrphanedObjectAfterPartialDeletion",
                               "UnexpectedError"}
              /\ s.result = "NotFound" <=> ~s.document.present
              /\ s.result = "NotFound" => s.attempts = <<>> /\ s.db_writes = 0
              /\ s.result = "ObjectStoreDeletionFailed" =>
                   Fails(s) = 1 /\ s.db_writes = 0
              /\ s.result = "OrphanedObjectAfterPartialDeletion" =>
                   Oks(s) = 1 /\ s.db_writes = 1 /\ s.db_count = 0

C14_Witness ==
  \E p, q \in Procs :
    /\ p # q /\ ~SOFT_DELETE_ENABLED
    /\ req[p].op = "deleteImage" /\ req[q].op = "deleteImage"
    /\ req[p].document_id = req[q].document_id
    /\ req[p].pc = "done" /\ req[p].result = "Success"
    /\ req[q].pc = "done" /\ req[q].result = "ObjectStoreDeletionFailed"
    /\ req[q].document.present
    /\ req[q].object_path \notin blobs

\* C15: the step in which deleteImage / deleteSet calls the audit append
\* returns the outcome that was decided before the call and leaves the
\* record store and the object store untouched, whether the append stores the
\* entry or fails; an invocation whose append failed returns a result of the
\* taxonomy, never the sink's exception.
C15_AuditSinkFailureSwallowed ==
  [][\A p \in Procs :
       (req[p].pc = "audit" /\ req'[p].pc # "audit") =>
          /\ req'[p].pc = "done"
          /\ req'[p].result = req[p].outcome
          /\ req'[p].result \in PostAttemptFailures \cup {"Success"}
          /\ req'[p].raised = req[p].raised
          /\ req'[p].document = req[p].document
          /\ req'[p].images = req[p].images
          /\ docs' = docs /\ blobs' = blobs
          /\ audit' \in {audit, Append(audit, req[p].pending)}]_vars

\* An invocation that succeeded although its audit entry was lost.
C15_Witness ==
  \E p \in Procs :
    /\ req[p].op = "deleteSet" /\ req[p].pc = "done"
    /\ req[p].audit_calls = 1 /\ req[p].audit_lost
    /\ AuditOf(req[p].call) = <<>>
    /\ req[p].result = "Success"
    /\ Find(docs, req[p].filter) = {}

\* delete_gcs_objects_batch was entered with a client and has returned.
BatchDone(r) ==
  /\ r.op \in {"deleteSet", "reap"}
  /\ r.pc \in {"db", "audit", "done"}
  /\ r.images # <<>>
  /\ Len(r.tasks) = Len(r.object_paths)

\* C16: deleteMany gives every path exactly one deletion attempt, whatever
\* the outcomes of the others (no retry, no skipping), and returns
\* successCount = the attempts that succeeded and one failure reason per
\* failed attempt, so that successCount + reasons = number of paths.
C16_EveryPathOnceCountsExact ==
  \A p \in Procs :
    LET r == req[p]
        n == Len(r.attempts)
    IN r.op \in {"deleteSet", "reap"} =>
         /\ \A j, k \in 1 .. n : r.attempts[j].path = r.attempts[k].path => j = k
         /\ \A k \in 1 .. n :
              \E j \in 1 .. Len(r.object_paths) : r.object_paths[j] = r.attempts[k].path
         /\ r.gcs_deleted = Oks(r)
         /\ Len(r.gcs_errors) = Fails(r)
         /\ BatchDone(r) =>
              /\ n = Len(r.object_paths)
              /\ r.gcs_deleted + Len(r.gcs_errors) = Len(r.object_paths)
              /\ \A k \in 1 .. n : ~r.attempts[k].ok =>
                   \E j \in 1 .. Len(r.gcs_errors) :
                     r.gcs_errors[j] = ErrGcs(r.attempts[k].path)

C16_Witness ==
  \E p \in Procs :
    /\ BatchDone(req[p]) /\ req[p].op = "deleteSet"
    /\ Len(req[p].object_paths) = 2
    /\ Len(req[p].attempts) = 2
    /\ ~req[p].attempts[1].ok /\ req[p].attempts[2].ok
    /\ req[p].gcs_deleted = 1 /\ Len(req[p].gcs_errors) = 1

\* C17: in deleteSet the gate is evaluated, and the record store written,
\* only after every object deletion the invocation submitted has completed:
\* the counts the decision is taken on are the final ones.
C17_PhaseOrdering ==
  \A p \in Procs :
    LET r == req[p]
    IN (/\ r.op = "deleteSet"
        /\ (r.pc \in {"db", "audit"} \/ r.db_writes >= 1 \/ r.outcome # "")) =>
         /\ Len(r.tasks) = Len(r.object_paths)
         /\ \A k \in 1 .. Len(r.tasks) : r.tasks[k] = "done"
         /\ Len(r.attempts) = Len(r.object_paths)
         /\ r.gcs_deleted = Oks(r)
         /\ Len(r.gcs_errors) = Fails(r)
         /\ (r.pc = "db" \/ r.db_writes >= 1) => Fails(r) = 0
         /\ r.outcome = "PartialObjectDeletionFailed" => Oks(r) >= 1 /\ Fails(r) >= 1
         /\ r.outcome = "AllObjectDeletionsFailed" => Oks(r) = 0 /\ Fails(r) >= 1

C17_Witness ==
  \E p \in Procs :
    /\ req[p].op = "deleteSet" /\ req[p].pc = "db"
    /\ req[p].db_writes = 0
    /\ Len(req[p].tasks) = 2
    /\ Oks(req[p]) = 2
    /\ \A k \in 1 .. Len(req[p].images) : docs[req[p].images[k].id] = req[p].images[k].doc

\* C18: every audit entry written by deleteImage or deleteSet has
\* partialSuccess = TRUE exactly when the invocation's object-store deletions
\* are more than 0 and fewer than the expected number of deletions (the
\* records it resolved).
C18_PartialSuccessFlag ==
  \A p \in Procs :
    LET r == req[p]
        expected == IF r.op = "deleteImage" THEN 1 ELSE r.expected_count
    IN r.op \in {"deleteImage", "deleteSet"} =>
         \A k \in 1 .. Len(AuditOf(r.call)) :
           LET e == AuditOf(r.call)[k]
           IN e.partialSuccess <=>
                (e.gcsDeletedCount > 0 /\ e.gcsDeletedCount < expected)

\* C19: when the set resolved by deleteSet holds records without an object
\* path, object deletion is attempted for exactly the records that have
\* one; if all of those succeed (and the record-store call returns), every
\* matched record, the path-less ones included, is removed or soft-marked
\* and the invocation returns success with deletedCount = expectedCount.
C19_PathlessRecordsDoNotBlock ==
  \A p \in Procs :
    LET r == req[p]
        ids == {r.images[k].id : k \in 1 .. Len(r.images)}
        pathless == {i \in ids : r.snap_docs[i].objectPath = NoPath}
    IN (/\ r.op = "deleteSet" /\ r.pc = "done"
        /\ pathless # {}
        /\ r.result \notin {"UnexpectedError", "NotFound"}) =>
         /\ {r.attempts[k].path : k \in 1 .. Len(r.attempts)} =
              {r.snap_docs[i].objectPath : i \in ids \ pathless}
         /\ Len(r.attempts) = Cardinality(ids \ pathless)
         /\ Fails(r) = 0 =>
              /\ r.result = "Success"
              /\ r.deleted_count = r.expected_count
              /\ r.expected_count = Cardinality(ids)
              /\ AuditOf(r.call)[1].deletedCount = r.expected_count
              /\ AuditOf(r.call)[1].gcsDeletedCount = Cardinality(ids \ pathless)
              /\ \A i \in ids :
                   IF SOFT_DELETE_ENABLED
                   THEN docs[i] = SoftMarked(r.snap_docs[i], r.user, now - 1)
                   ELSE ~docs[i].present

C19_Witness ==
  \E p \in Procs :
    /\ req[p].op = "deleteSet" /\ req[p].pc = "done"
    /\ req[p].result = "Success"
    /\ req[p].expected_count = 2
    /\ Len(req[p].attempts) = 1 /\ Oks(req[p]) = 1
    /\ \E k \in 1 .. 2 : req[p].images[k].doc.objectPath = NoPath
    /\ \A k \in 1 .. 2 : ~docs[req[p].images[k].id].present

\* C20: every call of deleteOne returns a value to its caller.  It returns
\* success only when the blob existed and its delete completed (the blob is
\* gone); a failure of the blob delete leaves the object store as it was,
\* is handed to the caller as failure(reason), and the caller goes on at its
\* own next step (the gate, or the remaining deletions of the batch).
C20_DeleteOneFailureIsValue ==
  [][\A p \in Procs :
       Len(req'[p].attempts) = Len(req[p].attempts) + 1 =>
         LET a == req'[p].attempts[Len(req'[p].attempts)]
             r == req'[p]
         IN /\ r.pc \in {"db", "audit", "workers"}
            /\ r.result = ""
            /\ a.ok =>
                 /\ a.path \in blobs /\ blobs' = blobs \ {a.path}
                 /\ r.gcs_deleted = req[p].gcs_deleted + 1
                 /\ r.gcs_errors = req[p].gcs_errors
            /\ ~a.ok =>
                 /\ blobs' = blobs
                 /\ r.gcs_deleted = req[p].gcs_deleted
                 /\ r.gcs_errors = Append(req[p].gcs_errors, ErrGcs(a.path))]_vars

C20_Witness ==
  \E p \in Procs :
    /\ req[p].op = "deleteSet" /\ req[p].pc = "workers"
    /\ Len(req[p].object_paths) = 2 /\ Len(req[p].tasks) = 2
    /\ req[p].attempts = <<[path |-> req[p].object_paths[1], ok |-> FALSE]>>
    /\ req[p].object_paths[1] \in blobs
    /\ req[p].gcs_errors = <<ErrGcs(req[p].object_paths[1])>>
    /\ req[p].tasks[2] = "running"

\* C21: the audit log is append-only.  Every step of deleteImage, deleteSet,
\* reapExpiredSoftDeletes, listAudits (and of every other request) either
\* leaves the log as it is or appends one entry at its end, and an entry is
\* appended only by the audit call of a deleteImage / deleteSet invocation,
\* which writes the entry of that invocation.
C21_AuditAppendOnly ==
  [][\/ audit' = audit
     \/ \E p \in Procs :
          /\ req[p].pc = "audit"
          /\ req[p].op \in {"deleteImage", "deleteSet"}
          /\ req[p].pending.call = req[p].call
          /\ audit' = Append(audit, req[p].pending)]_vars

\* Two entries were written and a listing has just returned both, newest
\* first; the log still holds them.
C21_Witness ==
  \E p \in Procs :
    /\ req[p].op = "listAudits" /\ req[p].pc = "done"
    /\ Len(audit) = 2
    /\ audit[1].call = 1 /\ audit[2].call = 2
    /\ req[p].audits = <<audit[2], audit[1]>>
    /\ req[p].total = 2

\* The normal reads of the API.
NormalReads == {"batchImages", "bananaTimeline", "lookupBanana", "counts"}

\* C22: no normal read (batch image listing, banana timeline, banana lookup,
\* counts) returns or counts a record that is flagged soft-deleted.
C22_SoftDeletedInvisible ==
  \A p \in Procs :
    LET r == req[p]
        live == {i \in Ids : docs[i].present /\ ~docs[i].isDeleted}
    IN (r.op \in NormalReads /\ r.pc = "done") =>
         /\ \A k \in 1 .. Len(r.images) : ~r.images[k].doc.isDeleted
         /\ r.op = "counts" => r.total = Cardinality(live)
         /\ r.op = "lookupBanana" =>
              r.total = Cardinality({i \in live : docs[i].bananaId = r.filter.bananaId})

\* C23: a deletion endpoint answers every post-attempt failure with HTTP 500
\* whose detail holds the failure's own message and the error list of the
\* raised error, never the generic failure; NotFound with 404,
\* InvalidIdentifier and MissingPath with 400; the status depends on the
\* failure alone.
C23_ErrorSurfacing ==
  \A p \in Procs :
    LET r == req[p]
        resp == HttpResponse(r)
    IN (r.op \in {"deleteImage", "deleteSet"} /\ r.pc = "done") =>
         /\ r.result \in PostAttemptFailures =>
              /\ resp.status = 500 /\ ~resp.generic
              /\ resp.message = ExceptionOf(r).message /\ resp.message # <<>>
              /\ resp.errors = r.raised /\ resp.errors # <<>>
              /\ \A q \in Procs :
                   (req[q].pc = "done" /\ req[q].result \in PostAttemptFailures
                    /\ HttpResponse(req[q]).message = resp.message) =>
                      req[q].result = r.result
         /\ r.result = "NotFound" => resp.status = 404
         /\ r.result \in {"InvalidIdentifier", "MissingPath"} => resp.status = 400
         /\ r.result = "Success" => resp.status = 200

C23_Witness ==
  \E p, q \in Procs :
    /\ req[p].op = "deleteImage" /\ req[p].pc = "done"
    /\ req[p].result = "OrphanedObjectAfterPartialDeletion"
    /\ HttpResponse(req[p]).status = 500
    /\ HttpResponse(req[p]).errors = <<ErrZeroCount>>
    /\ req[q].op = "deleteSet" /\ req[q].pc = "done"
    /\ req[q].result = "RecordCountMismatch"
    /\ HttpResponse(req[q]).errors = req[q].raised

\* C24: while deleteMany runs, the object deletions in flight never exceed
\* the worker limit of the call, for every number of paths, and every
\* deletion that was submitted is eventually started.
C24_BoundedWorkerPool ==
  /\ [](\A p \in Procs :
          /\ Cardinality(InFlight(req[p])) <= req[p].max_workers
          /\ req[p].pc = "workers" => Len(req[p].tasks) = Len(req[p].object_paths))
  /\ \A k \in 1 .. MaxDocs :
       (req[1].pc = "workers" /\ k \in Queued(req[1]))
         ~> (Len(req[1].tasks) >= k /\ req[1].tasks[k] # "queued")

\* The limit binds: one deletion runs, the next one waits for the worker.
C24_Witness ==
  /\ req[1].pc = "workers"
  /\ Cardinality(InFlight(req[1])) = req[1].max_workers
  /\ Len(req[1].tasks) > req[1].max_workers
  /\ Queued(req[1]) # {}

\* C25: reapExpiredSoftDeletes resolves, and later removes, only records
\* that are flagged soft-deleted with a timestamp strictly before its cutoff,
\* which is now minus the retention period when it is taken; it attempts no
\* object but those of the records it resolved; and every record its
\* delete_many removes is one it resolved and whose object (if it has a
\* path) it attempted, whatever other requests soft-delete meanwhile.  Live
\* records and records within the retention period are not changed by it.
C25_SweepSelectionAndFrame ==
  /\ [](\A p \in Procs :
          LET r == req[p]
          IN (r.op = "reap" /\ r.filter # NoFilter) =>
               /\ r.filter.cutoff <= now - SOFT_DELETE_RETENTION_DAYS
               /\ \A k \in 1 .. Len(r.images) :
                    /\ r.images[k].doc.isDeleted
                    /\ r.images[k].doc.deletedAt < r.filter.cutoff
               /\ \A k \in 1 .. Len(r.attempts) :
                    \E j \in 1 .. Len(r.images) :
                      r.images[j].doc.objectPath = r.attempts[k].path)
  /\ [][\A p \in Procs :
          (req[p].op = "reap" /\ req[p].pc = "db" /\ req'[p].pc # "db") =>
             \A i \in Ids :
               docs'[i] # docs[i] =>
                 /\ docs[i].isDeleted
                 /\ docs[i].deletedAt < now - SOFT_DELETE_RETENTION_DAYS
                 /\ ~docs'[i].present
                 /\ \E k \in 1 .. Len(req[p].images) : req[p].images[k].id = i
                 /\ docs[i].objectPath # NoPath =>
                      \E k \in 1 .. Len(req[p].attempts) :
                        req[p].attempts[k].path = docs[i].objectPath]_vars

\* The sweep has removed an expired record while another request
\* soft-deleted a live one, which is still there with its fresh flag.
C25_Witness ==
  \E p, q \in Procs :
    /\ req[p].op = "reap" /\ req[p].pc = "done" /\ req[p].deleted_count = 1
    /\ ~docs[req[p].images[1].id].present
    /\ req[q].op = "deleteImage" /\ req[q].pc = "done" /\ req[q].result = "Success"
    /\ ~req[q].document.isDeleted
    /\ req[q].call > req[p].call
    /\ docs[req[q].document_id].isDeleted
    /\ docs[req[q].document_id].deletedAt = now - 1

\* Terminal states of the deletion state machine.
AbortedStates ==
  {"ObjectStoreDeletionFailed", "AllObjectDeletionsFailed",
   "PartialObjectDeletionFailed"}

AfterRecordsStates ==
  {"Success", "OrphanedObjectAfterPartialDeletion", "RecordCountMismatch"}

Orchestrated(r) == r.op \in {"deleteImage", "deleteSet"}

\* C26: an invocation of deleteImage / deleteSet that passed its
\* pre-conditions goes Resolved -> ObjectsDeleting -> (Aborted |
\* RecordsDeleting -> (Success | OrphanInconsistency | CountMismatch)): it
\* is in RecordsDeleting only with no failed object deletion, it aborts only
\* out of ObjectsDeleting and with a failed object deletion, it decides
\* Success / Orphan / Mismatch only after its record-store write, and, its
\* store calls returning, it ends in one of these terminal states (a store
\* call that raises ends it with an unexpected error).
C26_StateMachine ==
  /\ [](\A p \in Procs :
          LET r == req[p]
          IN Orchestrated(r) =>
               /\ r.pc = "db" => (Fails(r) = 0 /\ r.db_writes = 0 /\ r.outcome = "")
               /\ r.db_writes >= 1 => Fails(r) = 0
               /\ r.outcome \in AbortedStates => (Fails(r) >= 1 /\ r.db_writes = 0)
               /\ r.outcome \in AfterRecordsStates => r.db_writes = 1
               /\ r.pc = "audit" => r.outcome \in AbortedStates \cup AfterRecordsStates
               /\ r.pc = "done" =>
                    r.result \in PreconditionFailures \cup AbortedStates
                                   \cup AfterRecordsStates \cup {"UnexpectedError"}
               /\ (r.pc = "done" /\ r.outcome # "") => r.result = r.outcome)
  /\ [][\A p \in Procs :
          (Orchestrated(req[p]) /\ req'[p].pc # req[p].pc) =>
             CASE req[p].pc = "gcs" -> req'[p].pc \in {"db", "audit", "done"}
               [] req[p].pc = "batch" -> req'[p].pc \in {"workers", "done"}
               [] req[p].pc = "workers" -> req'[p].pc \in {"db", "audit"}
               [] req[p].pc = "db" -> req'[p].pc \in {"audit", "done"}
               [] req[p].pc = "audit" -> req'[p].pc = "done"
               [] OTHER -> req'[p].pc = "idle"]_vars
  /\ \A p \in Procs :
       (Orchestrated(req[p]) /\ req[p].pc \in {"gcs", "batch", "workers", "db", "audit"})
         ~> (req[p].pc = "done" /\ req[p].result \notin PreconditionFailures)

\* A set deletion that went through RecordsDeleting and ended in CountMismatch:
\* the sweep removed one of its records in between.
C26_Witness ==
  \E p, q \in Procs :
    /\ req[p].op = "reap" /\ req[p].pc = "done" /\ req[p].deleted_count >= 1
    /\ req[q].op = "deleteSet" /\ req[q].pc = "done"
    /\ req[q].result = "RecordCountMismatch" /\ req[q].db_writes = 1
    /\ Fails(req[q]) = 0

PartialFailuresBefore(c, f) ==
  {k \in 1 .. Len(audit) :
     /\ audit[k].call < c /\ audit[k].target = SetTarget(f)
     /\ ~audit[k].success
     /\ audit[k].gcsDeletedCount >= 1 /\ audit[k].deletedCount = 0}

DeletedPaths(r) ==
  {r.attempts[k].path : k \in {j \in 1 .. Len(r.attempts) : r.attempts[j].ok}}

\* C29: in hard mode, when a deleteImage and a deleteSet whose filter matches
\* that image's record run together, and an object deletion fails only when
\* the blob is already absent, then once both have returned no record that
\* the deleteSet resolved remains in the record store with its object deleted
\* by either of the two.
C29_OverlappingDeletionsConsistent ==
  \A p, q \in Procs :
    LET r == req[p]
        s == req[q]
    IN (/\ p # q /\ ~SOFT_DELETE_ENABLED
        /\ r.op = "deleteImage" /\ s.op = "deleteSet"
        /\ r.pc = "done" /\ s.pc = "done"
        /\ r.result # "UnexpectedError" /\ s.result # "UnexpectedError"
        /\ ~r.faulted /\ ~s.faulted
        /\ \E k \in 1 .. Len(s.images) : s.images[k].id = r.document_id) =>
         \A k \in 1 .. Len(s.images) :
           LET d == s.images[k].doc
           IN ~(/\ docs[s.images[k].id] = d
                /\ d.objectPath \in DeletedPaths(r) \cup DeletedPaths(s)
                /\ d.objectPath \notin blobs)

\* C30: in soft-delete mode a record that is already soft-deleted is never
\* selected again: a deleteImage on its identifier, or a deleteSet whose
\* filter matches only soft-deleted records, returns NotFound, attempts no
\* object deletion, leaves the record's soft-delete timestamp and actor as
\* they were and writes no failed audit entry.
C30_RepeatSoftDeleteNotFound ==
  \A p \in Procs :
    LET r == req[p]
        again == IF r.op = "deleteImage"
                   THEN IF r.document_id \in Ids THEN {r.document_id} ELSE {}
                   ELSE Find(r.snap_docs, r.filter)
    IN (/\ SOFT_DELETE_ENABLED
        /\ r.op \in {"deleteImage", "deleteSet"} /\ r.pc = "done"
        /\ r.result # "UnexpectedError"
        /\ again # {}
        /\ \A i \in again : r.snap_docs[i].present /\ r.snap_docs[i].isDeleted) =>
         /\ r.result = "NotFound"
         /\ r.attempts = <<>>
         /\ \A i \in again : docs[i] = r.snap_docs[i]
         /\ \A k \in 1 .. Len(audit) : audit[k].call = r.call => audit[k].success

====
